---- MODULE Spec2Model ----
(***************************************************************************)
(* The PDF compression form of pdfcompress: src/app.py (the variant with   *)
(* the Ghostscript availability gate and the 50 MB cap) and src/app.py.py  *)
(* (the variant without them).  A job is one run of the script for one     *)
(* session; jobs share only the temporary directory.                       *)
(***************************************************************************)
EXTENDS Integers, FiniteSets, Sequences, TLC

\* ------------------------------------------------------------------ bounds
NJobs == 2             \* sessions that may run the script at the same time

Jobs == 1..NJobs
Paths == 1..(NJobs + 2)   \* names the temporary directory can hand out
NoPath == 0
NoSize == 0 - 1

\* ------------------------------------------------------- program constants
SizeLimit == 50 * 1024 * 1024

Variants == {"app.py", "app.py.py"}

\* the dict / list `qualities` of compress_pdf_gs
qualities_without_prepress == {"screen", "ebook", "printer"}
qualities == {"screen", "ebook", "printer", "prepress"}

\* the radio options of each variant
RadioOptions(v) ==
    IF v = "app.py" THEN {"Medium (recommended)", "High", "Maximum"}
                    ELSE {"Less (recommended)", "Extreme"}

\* quality_map[compression_type] / "ebook" if "Less" in compression_type else "screen"
QualityOf(v, compression_type) ==
    IF v = "app.py"
    THEN CASE compression_type = "Medium (recommended)" -> "ebook"
           [] compression_type = "High" -> "printer"
           [] compression_type = "Maximum" -> "screen"
    ELSE IF compression_type = "Less (recommended)" THEN "ebook" ELSE "screen"

\* --------------------------------------------------------------- the clock
Hours == {0, 12}
Minutes == {21, 22}
Seconds == {0, 30}
Microseconds == {0, 500000}
ClockReadings ==
    [hour : Hours, minute : Minutes, second : Seconds, microsecond : Microseconds]
NoClock == [hour |-> 0 - 1, minute |-> 0 - 1, second |-> 0 - 1, microsecond |-> 0 - 1]

\* datetime.time(0, 21): second and microsecond default to 0
restricted_time == [hour |-> 0, minute |-> 21, second |-> 0, microsecond |-> 0]

\* now.time() == restricted_time compares all four fields
is_restricted_time(now) == now = restricted_time

\* ------------------------------------------------------------- the upload
UploadSizes == {0, 1000, SizeLimit, SizeLimit + 1}

\* uploaded_file.size > 50 * 1024 * 1024
too_large_at_limit(size) == size >= SizeLimit
too_large(size) == size > SizeLimit

\* ------------------------------------------------- the temporary directory
NoFile == [exists |-> FALSE, owner |-> 0, content |-> "", size |-> NoSize]
File(j, content, size) ==
    [exists |-> TRUE, owner |-> j, content |-> content, size |-> size]

\* tempfile picks a name and creates the file with O_EXCL: never an existing name
AnyName(d) == Paths
FreeNames(d) == {p \in Paths : ~d[p].exists}

\* NamedTemporaryFile(delete=False): the file is created, empty, and kept
NameOnly(j) == NoFile
NamedTemporaryFile(j) == File(j, "empty", 0)

\* os.remove(p) guarded by os.path.exists(p)
RemoveIfExists(d, p) == IF d[p].exists THEN [d EXCEPT ![p] = NoFile] ELSE d

\* ------------------------------------------------------------ Ghostscript
\* what one run of gs can do: exit 0 and write the output, or exit nonzero with
\* diagnostics on stderr (text that decodes as UTF-8, or bytes that do not),
\* leaving the output file empty or partly written
OutSizes == {0, 400, 1000, 1500}
StderrTexts == {"Error: /undefined in obj", "Error: /undefined in obj\n"}
GsOutcomes ==
    [exit : {0}, out : OutSizes, stderr : {""}, utf8 : {TRUE}]
    \cup [exit : {1}, out : {0}, stderr : StderrTexts, utf8 : {TRUE}]
    \cup [exit : {1}, out : {400}, stderr : {"Error: /undefined in obj"}, utf8 : {TRUE}]
    \cup [exit : {1}, out : {0}, stderr : {""}, utf8 : {FALSE}]
NoOutcome == [exit |-> 0 - 1, out |-> NoSize, stderr |-> "", utf8 |-> TRUE]

\* str.strip() on the decoded stderr (app.py only)
strip(s) == IF s = "Error: /undefined in obj\n" THEN "Error: /undefined in obj" ELSE s

\* check_ghostscript_installed(): `gs --version` with check=True; a missing
\* executable (FileNotFoundError) and a nonzero exit (CalledProcessError) give False
ToolStates == {"ok", "absent", "broken"}
check_ghostscript_installed(t) == t = "ok"

\* the outcomes a run of gs can have on a host whose tool is in state t
OutcomesOf(t) == IF t = "ok" THEN GsOutcomes ELSE {o \in GsOutcomes : o.exit # 0}

\* an uploaded document: its size, its name, and (gs being a function of its
\* input) what gs does when it is run on this document on this host
NoUpload == [present |-> FALSE, size |-> NoSize, name |-> "", gs |-> NoOutcome]
Uploads(t) ==
    [present : {TRUE}, size : UploadSizes, name : {"doc.pdf"}, gs : OutcomesOf(t)]

NoRet == [result |-> "none", runs |-> 0, choices |-> {}, text |-> ""]

\* compress_pdf_gs(input_pdf, output_pdf, quality) in variant v, on a host whose
\* tool is in state t, when the run of gs (if it starts) ends as o
compress_pdf_gs(v, quality, t, o) ==
    IF quality \notin qualities
    THEN [result |-> "ValueError", runs |-> 0, choices |-> qualities,
          text |-> "Invalid quality. Choose from: "]
    ELSE IF t = "absent"
    THEN \* subprocess.run cannot start gs; only CalledProcessError is caught
         [result |-> "FileNotFoundError", runs |-> 1, choices |-> {}, text |-> ""]
    ELSE IF o.exit = 0
    THEN [result |-> "True", runs |-> 1, choices |-> {}, text |-> ""]
    ELSE IF ~o.utf8
    THEN \* e.stderr.decode() raises inside the except clause
         [result |-> "UnicodeDecodeError", runs |-> 1, choices |-> {}, text |-> ""]
    ELSE [result |-> "RuntimeError", runs |-> 1, choices |-> {},
          text |-> IF v = "app.py" THEN strip(o.stderr) ELSE o.stderr]

\* whether compress_pdf_gs got as far as starting gs
GsStarted(quality, t) == quality \in qualities /\ t # "absent"

\* the output file after gs ran with -sOutputFile=p
GsWrites(d, p, j, o) ==
    [d EXCEPT ![p] = File(IF d[p].exists THEN d[p].owner ELSE j,
                          IF o.exit = 0 THEN "compressed"
                          ELSE IF o.out = 0 THEN "empty" ELSE "partial",
                          o.out)]

\* ------------------------------------------------------------- arithmetic
\* floor(100 * a / b) for a >= 0, b > 0, without leaving 32 bits
PercentFloor(a, b) ==
    LET q == a \div b
        r == a % b
        t == (10 * r) \div b
        r1 == (10 * r) % b
    IN 100 * q + 10 * t + ((10 * r1) \div b)

\* ratio = (1 - (new_size / original_size)) * 100, kept exact as
\* 100 * num / den with num = original_size - new_size, den = original_size
\* (app.py.py divides both sizes by 1024 * 1024 first, which leaves the quotient
\* unchanged; a zero original_size raises ZeroDivisionError in both variants)
NoRatio == [num |-> 0, den |-> 0]
Ratio(original_size, new_size) ==
    [num |-> original_size - new_size, den |-> original_size]

\* int(ratio): truncation towards zero
IntRatio(r) ==
    IF r.num >= 0 THEN PercentFloor(r.num, r.den)
                  ELSE 0 - PercentFloor(0 - r.num, r.den)

\* min(int(ratio), 100)
Min(a, b) == IF a <= b THEN a ELSE b
ProgressValue(r) == Min(IntRatio(r), 100)

\* st.progress(value) accepts an int in 0..100 and raises StreamlitAPIException otherwise
ProgressAccepts(value) == value >= 0 /\ value <= 100

NoDownload == [offered |-> FALSE, data |-> NoFile, file_name |-> <<>>]

\* ------------------------------------------------------------------ state
VARIABLES
    variant,   \* which script is deployed
    tool,      \* the state of gs on the host
    disk,      \* the temporary directory: name -> file
    job        \* per job: position in the script, its locals and what it displayed

vars == <<variant, tool, disk, job>>

NewJob(pc) ==
    [pc |-> pc, now |-> NoClock, uploaded_file |-> NoUpload, compression_type |-> "",
     input_path |-> NoPath, output_path |-> NoPath,
     original_size |-> NoSize, new_size |-> NoSize, ratio |-> NoRatio,
     progress |-> NoSize, quality |-> "", ret |-> NoRet, e |-> "none", runs |-> 0,
     shown |-> {}, download |-> NoDownload, foreign |-> FALSE]

\* the first statement of the script after set_page_config and the definitions
FirstStep(v) == IF v = "app.py" THEN "toolgate" ELSE "timegate"

EmptyDisk == [p \in Paths |-> NoFile]

\* one session opens the page
Init ==
    /\ variant \in Variants
    /\ tool \in ToolStates
    /\ disk = EmptyDisk
    /\ job = [j \in Jobs |-> NewJob(IF j = 1 THEN FirstStep(variant) ELSE "off")]

\* job j moves to pc (with the other fields given in upd)
At(j, pc) == job[j].pc = pc
Set(j, upd) == job' = [job EXCEPT ![j] = upd]

\* an exception raised inside the try block: `except Exception as e` shows it,
\* then the finally clause runs
Caught(r, type) ==
    [r EXCEPT !.e = type, !.shown = @ \cup {"error"}, !.pc = "finally_input"]

\* an exception raised outside the try block ends the script run at once; the
\* run's path variables are gone with it
Uncaught(r, type) ==
    [r EXCEPT !.e = type, !.input_path = NoPath, !.output_path = NoPath,
              !.pc = "crashed"]

\* app.py 74-89: the availability gate
ToolGate(j) ==
    /\ At(j, "toolgate")
    /\ IF ~check_ghostscript_installed(tool)
       THEN Set(j, [job[j] EXCEPT !.shown = @ \cup {"ToolUnavailable"}, !.pc = "stopped"])
       ELSE Set(j, [job[j] EXCEPT !.pc = "timegate"])
    /\ UNCHANGED <<variant, tool, disk>>

\* the restricted-time gate
TimeGate(j) ==
    /\ At(j, "timegate")
    /\ \E now \in ClockReadings :
         IF is_restricted_time(now)
         THEN Set(j, [job[j] EXCEPT !.now = now, !.shown = @ \cup {"Restricted"},
                                    !.pc = "stopped"])
         ELSE Set(j, [job[j] EXCEPT !.now = now, !.pc = "upload"])
    /\ UNCHANGED <<variant, tool, disk>>

\* st.file_uploader, `if uploaded_file:` and (app.py) the size check
Upload(j) ==
    /\ At(j, "upload")
    /\ \E f \in Uploads(tool) \cup {NoUpload} :
         IF ~f.present
         THEN Set(j, [job[j] EXCEPT !.uploaded_file = f, !.pc = "done"])
         ELSE IF variant = "app.py" /\ too_large(f.size)
         THEN Set(j, [job[j] EXCEPT !.uploaded_file = f,
                                    !.shown = @ \cup {"FileTooLarge"}, !.pc = "stopped"])
         ELSE Set(j, [job[j] EXCEPT !.uploaded_file = f, !.pc = "radio"])
    /\ UNCHANGED <<variant, tool, disk>>

\* st.radio("Compression Level", ...)
Radio(j) ==
    /\ At(j, "radio")
    /\ \E c \in RadioOptions(variant) :
         Set(j, [job[j] EXCEPT !.compression_type = c, !.pc = "button"])
    /\ UNCHANGED <<variant, tool, disk>>

\* st.button: pressed or not in this run of the script
Button(j) ==
    /\ At(j, "button")
    /\ \E pressed \in BOOLEAN :
         Set(j, [job[j] EXCEPT !.pc = IF pressed THEN "stage" ELSE "done"])
    /\ UNCHANGED <<variant, tool, disk>>

\* with NamedTemporaryFile(delete=False, suffix=".pdf") as tmp_input: write; name
StageInput(j) ==
    /\ At(j, "stage")
    /\ \/ \E p \in FreeNames(disk) :
            /\ disk' = [disk EXCEPT ![p] = File(j, "upload", job[j].uploaded_file.size)]
            /\ Set(j, [job[j] EXCEPT !.input_path = p, !.pc = "alloc"])
       \/ \E p \in FreeNames(disk) :
            \* the file is created, then write() raises OSError (disk full)
            /\ disk' = [disk EXCEPT ![p] = File(j, "partial", 0)]
            /\ Set(j, Uncaught(job[j], "OSError"))
       \/ \* the file cannot be created
          /\ disk' = disk
          /\ Set(j, Uncaught(job[j], "OSError"))
    /\ UNCHANGED <<variant, tool>>

\* output_path = tempfile.NamedTemporaryFile(delete=False, suffix=".pdf").name
AllocOutput(j) ==
    /\ At(j, "alloc")
    /\ \/ \E p \in FreeNames(disk) :
            /\ disk' = [disk EXCEPT ![p] = NamedTemporaryFile(j)]
            /\ Set(j, [job[j] EXCEPT !.output_path = p, !.pc = "getsize"])
       \/ /\ disk' = disk
          /\ Set(j, Uncaught(job[j], "OSError"))
    /\ UNCHANGED <<variant, tool>>

\* job j touches the file named p: whether it is another job's file
Foreign(j, p) == disk[p].exists /\ disk[p].owner # j

\* original_size = os.path.getsize(input_path); start_time = time.time()
GetOrigSize(j) ==
    /\ At(j, "getsize")
    /\ LET p == job[j].input_path IN
       IF ~disk[p].exists
       THEN Set(j, Caught(job[j], "FileNotFoundError"))
       ELSE Set(j, [job[j] EXCEPT !.original_size = disk[p].size,
                                  !.foreign = @ \/ Foreign(j, p),
                                  !.pc = "invoke"])
    /\ UNCHANGED <<variant, tool, disk>>

\* job record r after compress_pdf_gs returned or raised res
AfterInvoke(r, quality, res) ==
    LET r1 == [r EXCEPT !.quality = quality, !.ret = res, !.runs = @ + res.runs]
    IN IF res.result = "True" THEN [r1 EXCEPT !.pc = "measure"]
                              ELSE Caught(r1, res.result)

\* quality = quality_map[compression_type]; compress_pdf_gs(input_path, output_path, quality)
Invoke(j) ==
    /\ At(j, "invoke")
    /\ LET quality == QualityOf(variant, job[j].compression_type)
           o == job[j].uploaded_file.gs
       IN
         /\ Set(j, AfterInvoke(job[j], quality, compress_pdf_gs(variant, quality, tool, o)))
         /\ disk' = IF GsStarted(quality, tool)
                    THEN GsWrites(disk, job[j].output_path, j, o)
                    ELSE disk
    /\ UNCHANGED <<variant, tool>>

\* new_size, ratio, st.success, the metrics, (app.py) st.progress, st.caption
Measure(j) ==
    /\ At(j, "measure")
    /\ LET p == job[j].output_path
           r == job[j]
           ratio == Ratio(r.original_size, disk[p].size)
           sized == [r EXCEPT !.new_size = disk[p].size, !.foreign = @ \/ Foreign(j, p)]
           shown == [sized EXCEPT !.ratio = ratio, !.shown = @ \cup {"success", "metrics"}]
       IN
       IF ~disk[p].exists
       THEN Set(j, Caught(r, "FileNotFoundError"))
       ELSE IF r.original_size = 0
       THEN Set(j, Caught(sized, "ZeroDivisionError"))
       ELSE IF variant = "app.py" /\ ~ProgressAccepts(ProgressValue(ratio))
       THEN Set(j, Caught(shown, "StreamlitAPIException"))
       ELSE Set(j, [shown EXCEPT
                      !.progress = IF variant = "app.py" THEN ProgressValue(ratio) ELSE @,
                      !.shown = @ \cup {"caption"},
                      !.pc = "download"])
    /\ UNCHANGED <<variant, tool, disk>>

\* with open(output_path, "rb") as f: st.download_button(..., f.read(), file_name=...)
Download(j) ==
    /\ At(j, "download")
    /\ LET p == job[j].output_path IN
       IF ~disk[p].exists
       THEN Set(j, Caught(job[j], "FileNotFoundError"))
       ELSE Set(j, [job[j] EXCEPT
                      !.download = [offered |-> TRUE, data |-> disk[p],
                                    file_name |-> <<"compressed_", job[j].uploaded_file.name>>],
                      !.foreign = @ \/ Foreign(j, p),
                      !.shown = @ \cup {"download"},
                      !.pc = "finally_input"])
    /\ UNCHANGED <<variant, tool, disk>>

\* finally: if os.path.exists(input_path): os.remove(input_path)
FinallyInput(j) ==
    /\ At(j, "finally_input")
    /\ LET p == job[j].input_path IN
       /\ disk' = RemoveIfExists(disk, p)
       /\ Set(j, [job[j] EXCEPT !.foreign = @ \/ Foreign(j, p), !.pc = "finally_output"])
    /\ UNCHANGED <<variant, tool>>

\* finally: if os.path.exists(output_path): os.remove(output_path); the script
\* run ends and its path variables are gone with it
FinallyOutput(j) ==
    /\ At(j, "finally_output")
    /\ LET p == job[j].output_path IN
       /\ disk' = RemoveIfExists(disk, p)
       /\ Set(j, [job[j] EXCEPT !.foreign = @ \/ Foreign(j, p),
                                !.input_path = NoPath, !.output_path = NoPath,
                                !.pc = "done"])
    /\ UNCHANGED <<variant, tool>>

\* the press of the compress button, from staging to the end of the finally clause
Handler(j) ==
    \/ StageInput(j) \/ AllocOutput(j) \/ GetOrigSize(j) \/ Invoke(j)
    \/ Measure(j) \/ Download(j) \/ FinallyInput(j) \/ FinallyOutput(j)

Next ==
    \E j \in Jobs :
        \/ ToolGate(j) \/ TimeGate(j) \/ Upload(j) \/ Radio(j) \/ Button(j)
        \/ Handler(j)

Spec == Init /\ [][Next]_vars

\* ------------------------------------------------------- concurrent sessions
\* every session has passed the gates, uploaded a document and pressed the
\* compress button
ReadyJob(v, f) ==
    [NewJob("stage") EXCEPT
       !.now = [hour |-> 12, minute |-> 21, second |-> 0, microsecond |-> 0],
       !.uploaded_file = f,
       !.compression_type = IF v = "app.py" THEN "Medium (recommended)"
                                            ELSE "Less (recommended)"]

\* a document gs compresses from 1000 to 400 bytes, and one it rejects
JobUploads(t) ==
    {u \in Uploads(t) : /\ u.size = 1000
                        /\ u.gs.out = IF u.gs.exit = 0 THEN 400 ELSE 0
                        /\ u.gs.stderr \in {"", "Error: /undefined in obj"}
                        /\ u.gs.utf8}

InitJobs ==
    /\ variant \in Variants
    /\ tool \in IF variant = "app.py" THEN {"ok"} ELSE {"ok", "absent"}
    /\ disk = EmptyDisk
    /\ job \in [Jobs -> {ReadyJob(variant, f) : f \in JobUploads(tool)}]

NextJobs == \E j \in Jobs : Handler(j)

SpecJobs == InitJobs /\ [][NextJobs]_vars

\* ------------------------------------------- compress_pdf_gs called directly
\* preset strings a caller may pass: the four valid ones and some that are not
PresetInputs ==
    {"screen", "ebook", "printer", "prepress", "", "default", "Screen", "/ebook", "maximum"}

\* an input document at name 1 and an allocated output file at name 2
StagedDisk(size) ==
    [p \in Paths |-> IF p = 1 THEN File(1, "upload", size)
                     ELSE IF p = 2 THEN File(1, "empty", 0)
                     ELSE NoFile]

InitInvoke ==
    /\ variant \in Variants
    /\ tool \in ToolStates
    /\ \E f \in Uploads(tool) :
         /\ disk = StagedDisk(f.size)
         /\ job = [j \in Jobs |->
                     IF j = 1
                     THEN [NewJob("call") EXCEPT !.uploaded_file = f,
                                                 !.input_path = 1, !.output_path = 2]
                     ELSE NewJob("off")]

\* compress_pdf_gs(input_path, output_path, quality) for any string quality
DirectCall(j) ==
    /\ At(j, "call")
    /\ \E quality \in PresetInputs :
         LET o == job[j].uploaded_file.gs
             res == compress_pdf_gs(variant, quality, tool, o)
         IN /\ Set(j, [job[j] EXCEPT !.quality = quality, !.ret = res,
                                     !.runs = @ + res.runs, !.pc = "returned"])
            /\ disk' = IF GsStarted(quality, tool)
                       THEN GsWrites(disk, job[j].output_path, j, o)
                       ELSE disk
    /\ UNCHANGED <<variant, tool>>

NextInvoke == \E j \in Jobs : DirectCall(j)

SpecInvoke == InitInvoke /\ [][NextInvoke]_vars

\* ================================================================== claims
\* the temporary files job j created that are still on disk
FilesOf(j) == {p \in Paths : disk[p].exists /\ disk[p].owner = j}

\* the handler of job j has exited (normally or by an exception)
Exited(j) == job[j].pc \in {"done", "crashed"}

\* C1: once the handler of a pipeline run has exited, on whatever path (also an
\* error while staging the upload or allocating the output path), none of the
\* run's temporary files remains on disk.
C1_CleanupOnEveryExit == \A j \in Jobs : Exited(j) => FilesOf(j) = {}

\* C2: in every variant, when gs cannot be found on the host the run never
\* creates a temporary file and never calls compress_pdf_gs.
C2_ToolUnavailableHalts ==
    \A j \in Jobs :
        tool = "absent" => (FilesOf(j) = {} /\ job[j].ret = NoRet)

\* C3: compress_pdf_gs called with a preset outside {screen, ebook, printer,
\* prepress} raises ValueError listing the four valid choices, runs nothing and
\* leaves every file as it was; called with a preset of the set it never raises
\* ValueError.
C3_InvalidPresetRejected ==
    \A j \in Jobs :
        job[j].pc = "returned" =>
            LET r == job[j]
                valid == {"screen", "ebook", "printer", "prepress"}
            IN /\ r.quality \notin valid =>
                    /\ r.ret.result = "ValueError"
                    /\ r.ret.choices = valid
                    /\ r.runs = 0
                    /\ disk = StagedDisk(r.uploaded_file.size)
               /\ r.quality \in valid => r.ret.result # "ValueError"

C3_InvalidPresetCalled ==
    \E j \in Jobs : /\ job[j].pc = "returned"
                    /\ job[j].quality = "default"
                    /\ job[j].ret.result = "ValueError"

\* C4: for a valid preset compress_pdf_gs runs the tool exactly once, returns
\* True when it exits with code 0, and in every other case (nonzero exit, or the
\* executable cannot be started) raises RuntimeError carrying the decoded stderr;
\* no other error type escapes.
C4_InvokerMapsEveryFailure ==
    \A j \in Jobs :
        LET r == job[j] IN
        (r.ret # NoRet /\ r.quality \in {"screen", "ebook", "printer", "prepress"}) =>
            /\ r.runs = 1
            /\ r.ret.result \in {"True", "RuntimeError"}
            /\ r.ret.result = "True" <=> (tool = "ok" /\ r.uploaded_file.gs.exit = 0)

\* C5: when the staged input has 0 bytes and the invoker succeeded, the pipeline
\* fails with a dedicated size-measurement error, never with a division by zero;
\* for original > 0 the ratio is (1 - compressed/original) * 100.
C5_ZeroOriginalGuarded ==
    \A j \in Jobs :
        LET r == job[j] IN
        (r.ret.result = "True" /\ r.new_size # NoSize) =>
            /\ r.original_size = 0 => r.e = "SizeMeasurementError"
            /\ r.original_size > 0 => r.ratio = Ratio(r.original_size, r.new_size)

\* C6 as stated: the file at the output path exists only once the external
\* tool has exited with code 0 (not in the Staged state, not in the Failed state).
C6_OutputOnlyAfterSuccess ==
    \A j \in Jobs :
        LET r == job[j] IN
        (r.output_path # NoPath /\ disk[r.output_path].exists) =>
            (r.ret.result = "True" /\ r.uploaded_file.gs.exit = 0)

\* the invoker of job j has failed and cleanup has not started yet
Failed(j) == job[j].pc = "finally_input" /\ job[j].ret.result \notin {"none", "True"}

\* C6 amended: the output file is created, empty, when its path is allocated, so
\* it exists in the Staged state (empty) and still exists in the Failed state;
\* it holds the tool's compressed output only once the tool has exited with code 0.
C6_OutputCreatedAtAllocation ==
    \A j \in Jobs :
        LET r == job[j]
            p == r.output_path
        IN p # NoPath =>
            /\ r.pc \in {"getsize", "invoke"} => disk[p] = File(j, "empty", 0)
            /\ Failed(j) => (disk[p].exists /\ disk[p].content # "compressed")
            /\ (disk[p].exists /\ disk[p].content = "compressed") =>
                   (r.ret.result = "True" /\ r.uploaded_file.gs.exit = 0)

C6_FailedWithOutputOnDisk ==
    \E j \in Jobs : /\ Failed(j)
                    /\ job[j].ret.result = "RuntimeError"
                    /\ disk[job[j].output_path].exists

\* C7: for every clock reading with hour 0 and minute 21, whatever the second
\* and microsecond, is_restricted_time() is true and the script stops before the
\* upload widget; for every other reading it is false.
C7_WholeMinuteRestricted ==
    \A j \in Jobs :
        LET r == job[j] IN
        r.now # NoClock =>
            ((r.now.hour = 0 /\ r.now.minute = 21)
                <=> (r.pc = "stopped" /\ "Restricted" \in r.shown))

\* C8: whenever the invoker succeeded and the original size is positive, for
\* every compressed size, the run completes: sizes and ratio are reported, no
\* error is shown, and the download offers the output file's bytes as
\* compressed_<original-name>.
C8_SuccessAlwaysCompletes ==
    \A j \in Jobs :
        LET r == job[j] IN
        (r.ret.result = "True" /\ r.original_size > 0
         /\ r.pc \in {"finally_input", "finally_output", "done"}) =>
            /\ {"success", "metrics"} \subseteq r.shown
            /\ "error" \notin r.shown
            /\ r.ratio = Ratio(r.original_size, r.new_size)
            /\ r.download.offered
            /\ r.download.data = File(j, "compressed", r.uploaded_file.gs.out)
            /\ r.download.file_name = <<"compressed_", r.uploaded_file.name>>

\* C9: in app.py every upload of more than 50*1024*1024 bytes is rejected with
\* 'File too large' before the compress button, so it gets no temporary file and
\* no run of the tool; every upload of at most that size passes the check.
\* app.py.py applies no size limit.
C9_SizeCap ==
    \A j \in Jobs :
        LET r == job[j]
            over == r.uploaded_file.size > 50 * 1024 * 1024
        IN r.uploaded_file.present =>
            IF variant = "app.py" /\ over
            THEN /\ r.pc = "stopped"
                 /\ "FileTooLarge" \in r.shown
                 /\ FilesOf(j) = {}
                 /\ r.runs = 0
                 /\ r.ret = NoRet
            ELSE /\ r.pc \notin {"stopped", "upload"}
                 /\ "FileTooLarge" \notin r.shown

C9_OversizeRejected ==
    \E j \in Jobs : /\ variant = "app.py"
                    /\ job[j].uploaded_file.size = 50 * 1024 * 1024 + 1
                    /\ job[j].pc = "stopped"

\* the handler of job j is between staging its input and the end of its cleanup
Running(j) ==
    job[j].pc \in {"alloc", "getsize", "invoke", "measure", "download",
                   "finally_input", "finally_output"}

\* the temporary paths job j has been given
PathsOf(j) == {job[j].input_path, job[j].output_path} \ {NoPath}

\* job j found one of its files missing
Missing(j) == job[j].e = "FileNotFoundError" /\ job[j].ret.result # "FileNotFoundError"

NoInterference == \A j \in Jobs : ~job[j].foreign /\ ~Missing(j)

\* C10 as stated: in any interleaving the input and output paths of all the
\* jobs that are running are pairwise distinct, and no job reads or deletes a
\* foreign file or finds its own missing.
C10_AllPathsDistinct ==
    /\ \A a, b \in Jobs :
          (a # b /\ Running(a) /\ Running(b)) => PathsOf(a) \cap PathsOf(b) = {}
    /\ \A j \in Jobs :
          (Running(j) /\ job[j].output_path # NoPath) =>
              job[j].input_path # job[j].output_path
    /\ NoInterference

\* the paths job j will still access: its input until cleanup removed it, its
\* output until the end of cleanup
LivePaths(j) ==
    (IF job[j].pc \in {"alloc", "getsize", "invoke", "measure", "download",
                       "finally_input"}
     THEN {job[j].input_path} ELSE {})
    \cup
    (IF job[j].pc \in {"getsize", "invoke", "measure", "download",
                       "finally_input", "finally_output"}
     THEN {job[j].output_path} ELSE {})

\* C10 amended: the paths the running jobs still have to access are pairwise
\* distinct and each names a file its own job created, and no job reads or
\* deletes a foreign file or finds its own missing; a name whose file its owner
\* has already removed may be handed out again.
C10_LivePathsDistinct ==
    /\ \A a, b \in Jobs : a # b => LivePaths(a) \cap LivePaths(b) = {}
    /\ \A j \in Jobs :
          /\ \A p \in LivePaths(j) : disk[p].exists /\ disk[p].owner = j
          /\ Cardinality(LivePaths(j)) =
                 (IF job[j].pc = "alloc" \/ job[j].pc = "finally_output" THEN 1
                  ELSE IF Running(j) THEN 2 ELSE 0)
    /\ NoInterference

C10_TwoJobsHoldingFiles ==
    \E a, b \in Jobs : /\ a # b
                       /\ job[a].pc = "download"
                       /\ job[b].pc = "finally_input"
                       /\ Cardinality(LivePaths(a) \cup LivePaths(b)) = 4

====
